---- MODULE Spec2Model ----
(***************************************************************************)
(* Apache Beam operators (airflow/providers/apache/beam/operators/beam.py): *)
(* BeamRunPythonPipelineOperator, BeamRunJavaPipelineOperator and           *)
(* BeamRunGoPipelineOperator.  One operator instance is modelled: its       *)
(* fields, the local variables of execute, the position of execute and of   *)
(* on_kill, and counters of the calls made to the collaborators (BeamHook,  *)
(* DataflowHook, GCSHook, DataflowJobLink).                                 *)
(***************************************************************************)
EXTENDS Naturals, Integers, Sequences, FiniteSets, TLC

(***************************************************************************)
(* Bounds of the model.                                                     *)
(***************************************************************************)
\* how many times is_job_dataflow_running may answer "running" in one execute
MaxPolls == 2
\* how many output lines the launched process prints
MaxLines == 2
\* how many times execute is called on the operator instance
MaxRuns == 2

(***************************************************************************)
(* Strings the code transforms are sequences of characters.                 *)
(***************************************************************************)
UpperSeq == <<"A","B","C","D","E","F","G","H","I","J","K","L","M",
              "N","O","P","Q","R","S","T","U","V","W","X","Y","Z">>
LowerSeq == <<"a","b","c","d","e","f","g","h","i","j","k","l","m",
              "n","o","p","q","r","s","t","u","v","w","x","y","z">>

UpperSet == {UpperSeq[i] : i \in 1..Len(UpperSeq)}

\* the lower-case letter of each capital
LowerOf ==
    [c \in UpperSet |-> LowerSeq[CHOOSE i \in 1..Len(UpperSeq) : UpperSeq[i] = c]]

IsUpper(c) == c \in UpperSet

LowerChar(c) == IF IsUpper(c) THEN LowerOf[c] ELSE c

\* str.lower()
Lower(s) == [i \in 1..Len(s) |-> LowerChar(s[i])]

\* airflow.utils.helpers.convert_camel_to_snake:
\*   re.compile(r'(?!^)([A-Z]+)').sub(r'_\1', camel_str).lower()
\* an underscore goes before every maximal run of capitals that does not
\* start the string (a run that starts the string is entered at its second
\* letter).
RECURSIVE SnakeFrom(_, _)
SnakeFrom(s, i) ==
    IF i > Len(s) THEN <<>>
    ELSE LET startsRun == /\ IsUpper(s[i])
                          /\ i > 1
                          /\ (i = 2 \/ ~IsUpper(s[i - 1]))
         IN  (IF startsRun THEN <<"_">> ELSE <<>>)
             \o <<LowerChar(s[i])>> \o SnakeFrom(s, i + 1)

convert_camel_to_snake(key) == SnakeFrom(key, 1)

(***************************************************************************)
(* Option keys and runner names.                                            *)
(***************************************************************************)
K_jobName == <<"j","o","b","N","a","m","e">>
K_job_name == <<"j","o","b","_","n","a","m","e">>
K_project == <<"p","r","o","j","e","c","t">>
K_region == <<"r","e","g","i","o","n">>
K_labels == <<"l","a","b","e","l","s">>
K_serviceAccount == <<"s","e","r","v","i","c","e","A","c","c","o","u","n","t">>
K_impersonateServiceAccount ==
    <<"i","m","p","e","r","s","o","n","a","t","e",
      "S","e","r","v","i","c","e","A","c","c","o","u","n","t">>
K_tempLocation == <<"t","e","m","p","L","o","c","a","t","i","o","n">>
K_temp_location == <<"t","e","m","p","_","l","o","c","a","t","i","o","n">>

DirectRunner == <<"D","i","r","e","c","t","R","u","n","n","e","r">>
\* BeamRunnerType.DataflowRunner
DataflowRunner == <<"D","a","t","a","f","l","o","w","R","u","n","n","e","r">>
LowerDataflowRunner == <<"d","a","t","a","f","l","o","w","r","u","n","n","e","r">>

(***************************************************************************)
(* Option values: a string (a sequence of segments) or a nested mapping     *)
(* (labels).  None is the absent job id, project id, location, ...          *)
(***************************************************************************)
None == "None"

\* None where the code expects a text (project id, location, account)
Absent == <<None>>

\* truth value of an optional text: None and "" are false
Truthy(x) == x # Absent /\ x # <<>>

\* no job_name_variable_key
NoKey == <<>>

Str(x) == [t |-> "str", s |-> x, m |-> <<>>]
Map(x) == [t |-> "map", s |-> <<>>, m |-> x]
NoneValue == [t |-> "none", s |-> <<>>, m |-> <<>>]

\* the option value of an optional text
Val(x) == IF x = Absent THEN NoneValue ELSE Str(x)

(***************************************************************************)
(* A dict is the sequence of its items in insertion order.                  *)
(***************************************************************************)
Item(key, val) == [k |-> key, v |-> val]

Has(d, key) == \E i \in 1..Len(d) : d[i].k = key

Get(d, key) == d[CHOOSE i \in 1..Len(d) : d[i].k = key].v

\* d[key] = val : an existing key keeps its place, a new key goes last
Put(d, key, val) ==
    IF Has(d, key)
    THEN [i \in 1..Len(d) |-> IF d[i].k = key THEN Item(key, val) ELSE d[i]]
    ELSE Append(d, Item(key, val))

\* d.update(e)
RECURSIVE Update(_, _)
Update(d, e) ==
    IF e = <<>> THEN d
    ELSE Update(Put(d, Head(e).k, Head(e).v), Tail(e))

\* Text that the code concatenates or rewrites is a sequence of segments.
\* str.replace(a, b) on single-segment patterns
Replace(s, a, b) == [i \in 1..Len(s) |-> IF s[i] = a THEN b ELSE s[i]]

\* airflow.version.version
version == <<"2", ".", "3", ".", "0", "+", "dev">>

\* "v" + version.replace(".", "-").replace("+", "-")
VersionLabel == <<"v">> \o Replace(Replace(version, ".", "-"), "+", "-")

\* d.setdefault("labels", {}).update({"airflow-version": ...})
WithVersionLabel(d) ==
    LET old == IF Has(d, K_labels) THEN Get(d, K_labels).m ELSE <<>>
    IN  Put(d, K_labels, Map(Put(old, "airflow-version", VersionLabel)))

\* mutant: of two keys with the same snake-case form the first keeps its value
RECURSIVE SnakeCase_FirstWins(_)
SnakeCase_FirstWins(d) ==
    IF d = <<>> THEN <<>>
    ELSE LET front == SnakeCase_FirstWins(SubSeq(d, 1, Len(d) - 1))
             last == d[Len(d)]
             key == convert_camel_to_snake(last.k)
         IN  IF Has(front, key) THEN front ELSE Append(front, Item(key, last.v))

\* {convert_camel_to_snake(key): pipeline_options[key] for key in pipeline_options}
RECURSIVE SnakeCase(_)
SnakeCase(d) ==
    IF d = <<>> THEN <<>>
    ELSE LET front == SnakeCase(SubSeq(d, 1, Len(d) - 1))
             last == d[Len(d)]
         IN  Put(front, convert_camel_to_snake(last.k), last.v)


(***************************************************************************)
(* DataflowHook.build_dataflow_job_name(job_name, append_job_name): the     *)
(* base name, followed by "-" and a unique token when append_job_name.      *)
(***************************************************************************)
build_dataflow_job_name(job_name, append_job_name, token) ==
    IF append_job_name THEN job_name \o <<"-", token>> ELSE job_name

\* ",".join(chain)
RECURSIVE JoinComma(_)
JoinComma(l) ==
    IF l = <<>> THEN <<>>
    ELSE IF Len(l) = 1 THEN l[1]
    ELSE l[1] \o <<",">> \o JoinComma(Tail(l))

\* an impersonation chain: None, one account, or a list of accounts
NoChain == [t |-> "none", s |-> <<>>, l |-> <<>>]
ChainStr(x) == [t |-> "str", s |-> x, l |-> <<>>]
ChainList(x) == [t |-> "list", s |-> <<>>, l |-> x]

\* truth value of dataflow_config.impersonation_chain
ChainTruthy(c) ==
    \/ c.t = "str" /\ c.s # <<>>
    \/ c.t = "list" /\ c.l # <<>>

\* BeamDataflowMixin.__get_dataflow_pipeline_options
get_dataflow_pipeline_options(cfg, impersonation, opts, job_name, job_name_key) ==
    LET o1 == IF job_name_key # NoKey
              THEN Put(opts, job_name_key, Str(job_name))
              ELSE opts
        o2 == IF Truthy(cfg.service_account)
              THEN Put(o1, K_serviceAccount, Val(cfg.service_account))
              ELSE o1
        o3 == IF impersonation /\ ChainTruthy(cfg.impersonation_chain)
              THEN IF cfg.impersonation_chain.t = "list"
                   THEN Put(o2, K_impersonateServiceAccount,
                            Str(JoinComma(cfg.impersonation_chain.l)))
                   ELSE Put(o2, K_impersonateServiceAccount,
                            Str(cfg.impersonation_chain.s))
              ELSE o2
        o4 == Put(o3, K_project, Val(cfg.project_id))
        o5 == Put(o4, K_region, Val(cfg.location))
    IN  WithVersionLabel(o5)

(***************************************************************************)
(* State.                                                                   *)
(***************************************************************************)
VARIABLES
    \* the operator's fields
    kind,                       \* "Python", "Java" or "Go": the operator class
    runner,                     \* self.runner
    default_pipeline_options,   \* self.default_pipeline_options
    pipeline_options,           \* self.pipeline_options
    dataflow_config,            \* self.dataflow_config
    artifact,                   \* self.py_file / self.jar / self.go_file
    beam_hook,                  \* self.beam_hook is not None
    dataflow_hook,              \* self.dataflow_hook is not None
    dataflow_job_id,            \* self.dataflow_job_id
    \* the frame of execute
    pc,                         \* position of execute
    is_dataflow,
    dataflow_job_name,
    options,                    \* pipeline_options / snake_case_pipeline_options
    process_line_callback,      \* process_line_callback is not None
    merged_options,             \* pipeline_options after update(self.pipeline_options)
    n_runs,                     \* calls of execute on this instance
    is_running,
    result,                     \* what execute returned
    raised,                     \* what execute raised
    \* the frame of on_kill
    kill_pc,                    \* position of on_kill
    \* the collaborators
    tmp_file,                   \* the file of GCSHook.provide_file exists
    tmp_dir,                    \* the TemporaryDirectory of the Go operator exists
    auth_held,                  \* inside provide_authorized_gcloud()
    n_auth,                     \* entries into provide_authorized_gcloud()
    n_queries,                  \* calls of is_job_dataflow_running
    n_running,                  \* ... that answered True
    n_launch,                   \* calls of start_*_pipeline
    launch_variables,           \* the variables of the last start_*_pipeline
    n_lines,                    \* lines printed by the launched process
    persisted,                  \* job ids given to DataflowJobLink.persist
    n_wait,                     \* calls of wait_for_done
    cancels,                    \* the (job_id, project_id) of cancel_job calls
    recorded,                   \* job ids set_current_dataflow_job_id received
    n_writes,                   \* assignments to self.dataflow_job_id
    last_recorded               \* the last job id recorded during this execute

fieldVars == <<kind, runner, default_pipeline_options, pipeline_options>>
frameVars == <<is_dataflow, dataflow_job_name, options, process_line_callback,
               merged_options, n_runs>>
killVars == <<kill_pc, cancels>>
idVars == <<dataflow_job_id, recorded, n_writes, last_recorded>>
queryVars == <<is_running, n_queries, n_running>>
launchVars == <<n_launch, launch_variables, n_lines, auth_held, n_auth>>
tmpVars == <<tmp_file, tmp_dir>>
doneVars == <<persisted, n_wait, result, raised>>

vars == <<fieldVars, dataflow_config, artifact, beam_hook, dataflow_hook,
          pc, frameVars, killVars, idVars, queryVars, launchVars, doneVars,
          tmpVars>>

(***************************************************************************)
(* Inputs.                                                                  *)
(***************************************************************************)
Kinds == {"Python", "Java", "Go"}
Runners == {DirectRunner, DataflowRunner, LowerDataflowRunner}
\* CheckJobRunning
CheckJobRunning == {"IgnoreJob", "FinishIfRunning", "WaitForRun"}
\* job ids in the output of the launched process
JobIds == {"2024-01-01_00_00_00-123", "2024-01-01_00_00_00-456"}
\* the unique part of a job name
Tokens == {"a1b2c3d4"}
\* DataflowHook.project_id
HookProjectId == <<"hook-project">>

DefaultChoices ==
    { <<>>,
      <<Item(K_project, Str(<<"default-project">>)),
        Item(K_labels, Map(<<Item("team", <<"data">>)>>))>> }

UserChoices ==
    { <<>>,
      <<Item(K_jobName, Str(<<"user-job">>))>>,
      <<Item(K_project, Str(<<"user-project">>)),
        Item(K_tempLocation, Str(<<"gs://bucket/tmp">>))>> }

ConfigChoices ==
    [ job_name : {<<"etl-job">>},
      append_job_name : {TRUE},
      project_id : {Absent, <<"config-project">>},
      location : {Absent, <<"us-central1">>},
      service_account : {Absent},
      impersonation_chain : {NoChain},
      check_if_running : CheckJobRunning,
      multiple_jobs : {FALSE} ]

NoResult == [t |-> "unset", id |-> None]
ReturnedNothing == [t |-> "none", id |-> None]
\* mutant: the returned dict carries no job id
ReturnedDict_NoId(id) == [t |-> "dict", id |-> None]
\* return {"dataflow_job_id": self.dataflow_job_id}
ReturnedDict(id) == [t |-> "dict", id |-> id]

(***************************************************************************)
(* __init__ of the three operators.                                         *)
(***************************************************************************)
\* self.pipeline_options after __init__: the Python and the Go operator add
\* the version label to it, the Java operator does not
ConstructedOptions(k, user_options) ==
    IF k \in {"Python", "Go"} THEN WithVersionLabel(user_options)
    ELSE user_options

\* mutant: the Go operator keeps the default of the mixin
dataflow_support_impersonation_Default == TRUE

\* dataflow_support_impersonation: True in the mixin, set to False by the
\* __init__ of the Go operator
dataflow_support_impersonation == kind # "Go"

InitWith(Defaults, Users, Configs) ==
    /\ kind \in Kinds
    /\ runner \in Runners
    /\ default_pipeline_options \in Defaults
    /\ \E u \in Users : pipeline_options = ConstructedOptions(kind, u)
    /\ dataflow_config \in Configs
    \* only the Java operator reads check_if_running; the others keep the
    \* default of DataflowConfiguration
    /\ kind # "Java" => dataflow_config.check_if_running = "WaitForRun"
    /\ artifact \in {"local", "gs"}
    /\ beam_hook = FALSE
    /\ dataflow_hook = FALSE
    /\ dataflow_job_id = None
    /\ pc = "idle"
    /\ is_dataflow = FALSE
    /\ dataflow_job_name = Absent
    /\ options = <<>>
    /\ process_line_callback = FALSE
    /\ merged_options = <<>>
    /\ n_runs = 0
    /\ is_running = FALSE
    /\ result = NoResult
    /\ raised = None
    /\ kill_pc = "idle"
    /\ tmp_file = FALSE
    /\ tmp_dir = FALSE
    /\ auth_held = FALSE
    /\ n_auth = 0
    /\ n_queries = 0
    /\ n_running = 0
    /\ n_launch = 0
    /\ launch_variables = <<>>
    /\ n_lines = 0
    /\ persisted = {}
    /\ n_wait = 0
    /\ cancels = {}
    /\ recorded = {}
    /\ n_writes = 0
    /\ last_recorded = None

Init == InitWith(DefaultChoices, UserChoices, ConfigChoices)

(***************************************************************************)
(* execute: option assembly.                                                *)
(***************************************************************************)
\* the arguments each execute gives _init_pipeline_options
FormatPipelineOptions == kind \in {"Python", "Go"}
JobNameVariableKey == IF kind \in {"Python", "Go"} THEN K_job_name ELSE NoKey

\* BeamRunnerType.DataflowRunner.lower()
DataflowRunnerLower == Lower(DataflowRunner)

\* runner.lower() == BeamRunnerType.DataflowRunner.lower()
IsDataflowRunner(r) == Lower(r) = DataflowRunnerLower

\* _set_dataflow: dataflow_config.project_id or dataflow_hook.project_id
BackfilledConfig(cfg) ==
    [cfg EXCEPT !.project_id = IF Truthy(@) THEN @ ELSE HookProjectId]

\* pipeline_options.update(self.pipeline_options)
MergeUserOptions(assembled, user_options) == Update(assembled, user_options)

\* Whether a working dict still holds the labels object of
\* self.default_pipeline_options.
\* self.default_pipeline_options.copy(): a new dict with the same values
SharedAfterCopy(shared) == shared

\* mutant: the nested mappings are not copied
SharedAfterDeepcopy_Shallow(shared) == shared

\* copy.deepcopy(pipeline_options): nothing is shared any more
SharedAfterDeepcopy(shared) == FALSE

\* BeamBasePipelineOperator._init_pipeline_options, as the tuple it returns
\* together with the dataflow_config _set_dataflow leaves behind and the
\* operator's two option dicts as the call leaves them
init_pipeline_options(token) ==
    LET dataflow == IsDataflowRunner(runner)
        cfg == IF dataflow THEN BackfilledConfig(dataflow_config)
               ELSE dataflow_config
        name == IF dataflow
                THEN build_dataflow_job_name(cfg.job_name,
                                             cfg.append_job_name, token)
                ELSE Absent
        base == IF dataflow
                THEN get_dataflow_pipeline_options(
                         cfg, dataflow_support_impersonation,
                         default_pipeline_options, name, JobNameVariableKey)
                ELSE default_pipeline_options
        merged == MergeUserOptions(base, pipeline_options)
        shared == IF dataflow
                  THEN SharedAfterDeepcopy(SharedAfterCopy(TRUE))
                  ELSE SharedAfterCopy(TRUE)
        \* setdefault("labels", {}).update(...) writes into the labels
        \* object the working dict holds
        defaults == IF dataflow /\ shared
                       /\ Has(default_pipeline_options, K_labels)
                    THEN Put(default_pipeline_options, K_labels,
                             Get(base, K_labels))
                    ELSE default_pipeline_options
    IN  [ is_dataflow |-> dataflow,
          dataflow_job_name |-> name,
          options |-> IF FormatPipelineOptions THEN SnakeCase(merged)
                      ELSE merged,
          merged |-> merged,
          defaults |-> defaults,
          \* update(self.pipeline_options) only reads its argument
          user_options |-> pipeline_options,
          callback |-> dataflow,
          config |-> cfg ]

\* execute, up to the ExitStack: _init_pipeline_options
ExecuteStart ==
    /\ pc = "idle"
    /\ \E token \in Tokens :
         LET r == init_pipeline_options(token)
         IN  /\ beam_hook' = TRUE
             /\ dataflow_hook' = (dataflow_hook \/ r.is_dataflow)
             /\ dataflow_config' = r.config
             /\ is_dataflow' = r.is_dataflow
             /\ dataflow_job_name' = r.dataflow_job_name
             /\ options' = r.options
             /\ process_line_callback' = r.callback
             /\ merged_options' = r.merged
             /\ default_pipeline_options' = r.defaults
             /\ pipeline_options' = r.user_options
    /\ n_runs' = n_runs + 1
    /\ pc' = "resolve"
    /\ UNCHANGED <<kind, runner, artifact, killVars, idVars, queryVars,
                   launchVars, doneVars, tmpVars>>

(***************************************************************************)
(* execute: the artifact.                                                   *)
(***************************************************************************)
\* mutant: the remote branch is taken whatever the runner is
BranchAfterResolve_NoTargetCheck ==
    IF kind = "Java" THEN "dupcheck" ELSE "remote"

\* the branch taken after the artifact is resolved
BranchAfterResolve ==
    IF is_dataflow /\ dataflow_hook
    THEN IF kind = "Java" THEN "dupcheck" ELSE "remote"
    ELSE "local"

\* the Go operator downloads inside "with tempfile.TemporaryDirectory(...)"
InTemporaryDirectory == kind = "Go" /\ artifact = "gs"

\* if file.lower().startswith("gs://"): download into a temporary file kept
\* by the ExitStack.  The Go operator first creates a TemporaryDirectory and
\* downloads into it; the statements of its with-block run in this step.
ResolveArtifact ==
    /\ pc = "resolve"
    /\ IF artifact = "gs"
       THEN /\ artifact' = "tmp"
            /\ tmp_file' = TRUE
            /\ tmp_dir' = InTemporaryDirectory
       ELSE UNCHANGED <<artifact, tmpVars>>
    /\ pc' = IF InTemporaryDirectory THEN "tmpdir" ELSE BranchAfterResolve
    /\ UNCHANGED <<fieldVars, dataflow_config, beam_hook, dataflow_hook,
                   frameVars, killVars, idVars, queryVars, launchVars,
                   doneVars>>

\* the with-block of the TemporaryDirectory ends, before anything is
\* launched: the directory is removed with the downloaded file in it
LeaveTemporaryDirectory ==
    /\ pc = "tmpdir"
    /\ tmp_dir' = FALSE
    /\ tmp_file' = FALSE
    /\ pc' = BranchAfterResolve
    /\ UNCHANGED <<fieldVars, dataflow_config, artifact, beam_hook,
                   dataflow_hook, frameVars, killVars, idVars, queryVars,
                   launchVars, doneVars>>

\* mutant: the downloaded file is not registered with the ExitStack
ExitStackClosed_KeepsFile == UNCHANGED tmpVars

\* leaving the ExitStack, by return or by exception, deletes the file
ExitStackClosed == tmp_file' = FALSE /\ UNCHANGED tmp_dir

(***************************************************************************)
(* execute of the Java operator: the check for a running job.               *)
(***************************************************************************)
\* what is_job_dataflow_running does: answers True or False, or fails
QueryAnswers == {"running", "not running", "error"}

\* one call of dataflow_hook.is_job_dataflow_running; a failure propagates
QueryRunning(ans) ==
    /\ ans = "running" => n_running < MaxPolls
    /\ n_queries' = n_queries + 1
    /\ n_running' = IF ans = "running" THEN n_running + 1 ELSE n_running
    /\ IF ans = "error"
       THEN /\ raised' = "RemoteQueryFailure"
            /\ pc' = "raised"
            /\ ExitStackClosed
            /\ UNCHANGED is_running
       ELSE /\ is_running' = (ans = "running")
            /\ pc' = "while"
            /\ UNCHANGED <<raised, tmpVars>>
    /\ UNCHANGED <<fieldVars, dataflow_config, artifact, beam_hook,
                   dataflow_hook, frameVars, killVars, idVars, launchVars,
                   persisted, n_wait, result>>

\* mutant: IgnoreJob asks like the other policies
DupCheckIgnore_Asks ==
    /\ pc = "dupcheck"
    /\ dataflow_config.check_if_running = "IgnoreJob"
    /\ \E ans \in QueryAnswers : QueryRunning(ans)

\* check_if_running == IgnoreJob: is_running stays False, nothing is asked
DupCheckIgnore ==
    /\ pc = "dupcheck"
    /\ dataflow_config.check_if_running = "IgnoreJob"
    /\ is_running' = FALSE
    /\ pc' = "decide"
    /\ UNCHANGED <<fieldVars, dataflow_config, artifact, beam_hook,
                   dataflow_hook, frameVars, killVars, idVars, n_queries,
                   n_running, launchVars, doneVars, tmpVars>>

\* check_if_running != IgnoreJob: the first question
DupCheckQuery ==
    /\ pc = "dupcheck"
    /\ dataflow_config.check_if_running # "IgnoreJob"
    /\ \E ans \in QueryAnswers : QueryRunning(ans)

\* mutant: the loop does not look at the policy
WhileCondition_AnyPolicy == is_running

\* mutant: the loop gives up after its first query
WhileCondition_GivesUp ==
    /\ is_running
    /\ dataflow_config.check_if_running = "WaitForRun"
    /\ n_queries < 2

\* while is_running and check_if_running == WaitForRun
WhileCondition ==
    is_running /\ dataflow_config.check_if_running = "WaitForRun"

\* the body of the while loop: ask again
WhileQuery ==
    /\ pc = "while"
    /\ WhileCondition
    /\ \E ans \in QueryAnswers : QueryRunning(ans)

\* mutant: the loop is left after any answer
LoopLeft_AfterAnyAnswer == pc = "while"

\* the loop is left
LoopLeft == pc = "while" /\ ~WhileCondition

\* mutant: "if not is_running" is evaluated again when the launcher returned
AtDecision_AgainAfterLaunch == pc = "decide" \/ LoopLeft \/ pc = "launched"

\* at "if not is_running"
AtDecision == pc = "decide" \/ LoopLeft

\* not is_running: pipeline_options["jobName"] = dataflow_job_name, enter
\* provide_authorized_gcloud() and call start_java_pipeline
JavaLaunch ==
    /\ AtDecision
    /\ ~is_running
    /\ options' = Put(options, K_jobName, Str(dataflow_job_name))
    /\ auth_held' = TRUE
    /\ n_auth' = n_auth + 1
    /\ n_launch' = n_launch + 1
    /\ launch_variables' = options'
    /\ pc' = "launching"
    /\ UNCHANGED <<fieldVars, dataflow_config, artifact, beam_hook,
                   dataflow_hook, is_dataflow, dataflow_job_name,
                   process_line_callback, merged_options, n_runs, killVars,
                   idVars, queryVars, n_lines, doneVars, tmpVars>>

\* is_running: return {"dataflow_job_id": self.dataflow_job_id}
JavaSkip ==
    /\ AtDecision
    /\ is_running
    /\ result' = ReturnedDict(dataflow_job_id)
    /\ pc' = "returned"
    /\ ExitStackClosed
    /\ UNCHANGED <<fieldVars, dataflow_config, artifact, beam_hook,
                   dataflow_hook, frameVars, killVars, idVars, queryVars,
                   launchVars, persisted, n_wait, raised>>

(***************************************************************************)
(* execute: the launch.                                                     *)
(***************************************************************************)
\* Python and Go operator on Dataflow: enter provide_authorized_gcloud() and
\* call start_python_pipeline / start_go_pipeline
RemoteLaunch ==
    /\ pc = "remote"
    /\ auth_held' = TRUE
    /\ n_auth' = n_auth + 1
    /\ n_launch' = n_launch + 1
    /\ launch_variables' = options
    /\ pc' = "launching"
    /\ UNCHANGED <<fieldVars, dataflow_config, artifact, beam_hook,
                   dataflow_hook, frameVars, killVars, idVars, queryVars,
                   n_lines, doneVars, tmpVars>>

\* any other runner: call start_*_pipeline
LocalLaunch ==
    /\ pc = "local"
    /\ n_launch' = n_launch + 1
    /\ launch_variables' = options
    /\ pc' = "launching"
    /\ UNCHANGED <<fieldVars, dataflow_config, artifact, beam_hook,
                   dataflow_hook, frameVars, killVars, idVars, queryVars,
                   n_lines, auth_held, n_auth, doneVars, tmpVars>>

\* a line of output: the job id it shows, or None
Lines == JobIds \cup {None}

\* process_line_and_extract_dataflow_job_id_callback: the job id matched in
\* the line, given to on_new_job_id_callback
ExtractJobId(line) == line

\* set_current_dataflow_job_id: self.dataflow_job_id = job_id
set_current_dataflow_job_id(job_id) ==
    /\ dataflow_job_id' = job_id
    /\ recorded' = recorded \cup {job_id}
    /\ n_writes' = n_writes + 1
    /\ last_recorded' = job_id

\* the launched process prints a line; the launcher gives it to
\* process_line_callback when there is one
ProcessLine ==
    /\ pc = "launching"
    /\ n_lines < MaxLines
    /\ n_lines' = n_lines + 1
    /\ \E line \in Lines :
         IF process_line_callback /\ ExtractJobId(line) # None
         THEN set_current_dataflow_job_id(ExtractJobId(line))
         ELSE UNCHANGED idVars
    /\ UNCHANGED <<fieldVars, dataflow_config, artifact, beam_hook,
                   dataflow_hook, pc, frameVars, killVars, queryVars,
                   n_launch, launch_variables, auth_held, n_auth, doneVars,
                   tmpVars>>

\* mutant: an exception of the launcher leaves the authorization in place
AuthorizedAfterLaunch_KeptOnError(ok) == auth_held /\ ~ok

\* the with-block of provide_authorized_gcloud() is left when the launcher
\* returns and when it raises
AuthorizedAfterLaunch(ok) == FALSE

\* the launched process exits; a non-zero exit raises out of execute
LaunchExit ==
    /\ pc = "launching"
    /\ \E ok \in BOOLEAN :
         /\ auth_held' = AuthorizedAfterLaunch(ok)
         /\ IF ~ok
            THEN /\ raised' = "LaunchFailure"
                 /\ pc' = "raised"
                 /\ ExitStackClosed
                 /\ UNCHANGED result
            ELSE IF is_dataflow /\ dataflow_hook
            THEN /\ pc' = "launched"
                 /\ UNCHANGED <<raised, result, tmpVars>>
            ELSE \* the local branch falls off the end of execute
                 /\ result' = ReturnedNothing
                 /\ pc' = "returned"
                 /\ ExitStackClosed
                 /\ UNCHANGED raised
    /\ UNCHANGED <<fieldVars, dataflow_config, artifact, beam_hook,
                   dataflow_hook, frameVars, killVars, idVars, queryVars,
                   n_launch, launch_variables, n_lines, n_auth, persisted,
                   n_wait>>

(***************************************************************************)
(* execute on Dataflow, after the launch.                                   *)
(***************************************************************************)
\* mutant: the wait does not look at the location
WaitCondition_NameOnly == Truthy(dataflow_job_name)

\* if dataflow_job_name and self.dataflow_config.location
WaitCondition == Truthy(dataflow_job_name) /\ Truthy(dataflow_config.location)

\* DataflowJobLink.persist: always for Python and Go, for Java only inside
\* the wait condition
PersistCondition == kind # "Java" \/ WaitCondition

\* persist the job id, then call wait_for_done or return the job id
AfterLaunch ==
    /\ pc = "launched"
    /\ persisted' = IF PersistCondition
                    THEN persisted \cup {dataflow_job_id}
                    ELSE persisted
    /\ IF WaitCondition
       THEN /\ n_wait' = n_wait + 1
            /\ pc' = "waiting"
            /\ UNCHANGED <<result, tmpVars>>
       ELSE /\ result' = ReturnedDict(dataflow_job_id)
            /\ pc' = "returned"
            /\ ExitStackClosed
            /\ UNCHANGED n_wait
    /\ UNCHANGED <<fieldVars, dataflow_config, artifact, beam_hook,
                   dataflow_hook, frameVars, killVars, idVars, queryVars,
                   launchVars, raised>>

\* mutant: a failure of wait_for_done is noted and execute returns the job id
WaitForDone_ReturnsAfterFailure ==
    /\ pc = "waiting"
    /\ \E ok \in BOOLEAN :
         /\ result' = ReturnedDict(dataflow_job_id)
         /\ pc' = "returned"
         /\ raised' = IF ok THEN raised ELSE "WaitFailure"
    /\ ExitStackClosed
    /\ UNCHANGED <<fieldVars, dataflow_config, artifact, beam_hook,
                   dataflow_hook, frameVars, killVars, idVars, queryVars,
                   launchVars, persisted, n_wait>>

\* wait_for_done returns, or fails
WaitForDone ==
    /\ pc = "waiting"
    /\ \E ok \in BOOLEAN :
         IF ok
         THEN /\ result' = ReturnedDict(dataflow_job_id)
              /\ pc' = "returned"
              /\ UNCHANGED raised
         ELSE /\ raised' = "WaitFailure"
              /\ pc' = "raised"
              /\ UNCHANGED result
    /\ ExitStackClosed
    /\ UNCHANGED <<fieldVars, dataflow_config, artifact, beam_hook,
                   dataflow_hook, frameVars, killVars, idVars, queryVars,
                   launchVars, persisted, n_wait>>

(***************************************************************************)
(* on_kill, called by the task runtime at any moment.                       *)
(***************************************************************************)
\* mutant: on_kill does not look at the job id
KillCondition_HookOnly == dataflow_hook

\* if self.dataflow_hook and self.dataflow_job_id
KillCondition == dataflow_hook /\ dataflow_job_id # None

\* on_kill is entered and evaluates its condition; it returns when it is
\* false.  An on_kill that raised is not called again.
OnKill ==
    /\ kill_pc \in {"idle", "returned"}
    /\ kill_pc' = IF KillCondition THEN "cancel" ELSE "returned"
    /\ UNCHANGED <<fieldVars, dataflow_config, artifact, beam_hook,
                   dataflow_hook, pc, frameVars, cancels, idVars, queryVars,
                   launchVars, doneVars, tmpVars>>

\* mutant: cancel_job gets the project of the hook
CancelArguments_HookProject ==
    [job_id |-> dataflow_job_id, project_id |-> HookProjectId]

\* the arguments of dataflow_hook.cancel_job
CancelArguments ==
    [job_id |-> dataflow_job_id, project_id |-> dataflow_config.project_id]

\* what on_kill does with a failure of cancel_job: nothing, it propagates
OnKillOutcome(ok) == IF ok THEN "returned" ELSE "raised"

\* dataflow_hook.cancel_job(job_id=..., project_id=...) returns, or fails
OnKillCancel ==
    /\ kill_pc = "cancel"
    /\ cancels' = cancels \cup {CancelArguments}
    /\ \E ok \in BOOLEAN : kill_pc' = OnKillOutcome(ok)
    /\ UNCHANGED <<fieldVars, dataflow_config, artifact, beam_hook,
                   dataflow_hook, pc, frameVars, idVars, queryVars,
                   launchVars, doneVars, tmpVars>>

(***************************************************************************)
(* Specification: one operator instance, one execute, on_kill at any time.  *)
(***************************************************************************)
Next ==
    \/ ExecuteStart
    \/ ResolveArtifact
    \/ LeaveTemporaryDirectory
    \/ DupCheckIgnore
    \/ DupCheckQuery
    \/ WhileQuery
    \/ JavaLaunch
    \/ JavaSkip
    \/ RemoteLaunch
    \/ LocalLaunch
    \/ ProcessLine
    \/ LaunchExit
    \/ AfterLaunch
    \/ WaitForDone
    \/ OnKill
    \/ OnKillCancel

Spec == Init /\ [][Next]_vars

(***************************************************************************)
(* Specification: the same operators, constructed with options that carry   *)
(* their own labels and keys with the same snake-case form, and run by a    *)
(* task that is not killed.                                                 *)
(***************************************************************************)
LabelledDefaults ==
    { <<>>,
      <<Item(K_project, Str(<<"default-project">>)),
        Item(K_labels, Map(<<Item("team", <<"data">>)>>))>>,
      <<Item(K_temp_location, Str(<<"gs://defaults/tmp">>))>> }

LabelledUsers ==
    { <<>>,
      <<Item(K_labels, Map(<<Item("env", <<"prod">>)>>))>>,
      <<Item(K_tempLocation, Str(<<"gs://camel/tmp">>)),
        Item(K_temp_location, Str(<<"gs://snake/tmp">>))>>,
      <<Item(K_temp_location, Str(<<"gs://snake/tmp">>)),
        Item(K_tempLocation, Str(<<"gs://camel/tmp">>))>> }

LabelledConfigs ==
    [ job_name : {<<"etl-job">>},
      append_job_name : {TRUE},
      project_id : {<<"config-project">>},
      location : {<<"us-central1">>},
      service_account : {Absent},
      impersonation_chain : {NoChain},
      check_if_running : CheckJobRunning,
      multiple_jobs : {FALSE} ]

InitOptions == InitWith(LabelledDefaults, LabelledUsers, LabelledConfigs)

\* the steps of execute, for a task that is not killed
NextExecute ==
    \/ ExecuteStart
    \/ ResolveArtifact
    \/ LeaveTemporaryDirectory
    \/ DupCheckIgnore
    \/ DupCheckQuery
    \/ WhileQuery
    \/ JavaLaunch
    \/ JavaSkip
    \/ RemoteLaunch
    \/ LocalLaunch
    \/ ProcessLine
    \/ LaunchExit
    \/ AfterLaunch
    \/ WaitForDone

SpecOptions == InitOptions /\ [][NextExecute]_vars

(***************************************************************************)
(* Specification: the same operators, constructed with a dataflow_config    *)
(* that has an impersonation chain, and run by a task that is not killed.   *)
(***************************************************************************)
ChainChoices ==
    { NoChain,
      ChainStr(<<>>),
      ChainStr(<<"first@project">>),
      ChainList(<<>>),
      ChainList(<< <<"first@project">> >>),
      ChainList(<< <<"first@project">>, <<"second@project">> >>) }

ImpersonationConfigs ==
    [ job_name : {<<"etl-job">>},
      append_job_name : {TRUE},
      project_id : {<<"config-project">>},
      location : {<<"us-central1">>},
      service_account : {Absent, <<"worker@project">>},
      impersonation_chain : ChainChoices,
      check_if_running : CheckJobRunning,
      multiple_jobs : {FALSE} ]

InitImpersonation == InitWith({<<>>}, {<<>>}, ImpersonationConfigs)

SpecImpersonation == InitImpersonation /\ [][NextExecute]_vars

(***************************************************************************)
(* Specification: execute is called again on the same operator instance.    *)
(***************************************************************************)
RerunConfigs ==
    [ job_name : {<<"etl-job">>},
      append_job_name : {TRUE},
      project_id : {<<"config-project">>},
      location : {Absent, <<"us-central1">>},
      service_account : {Absent},
      impersonation_chain : {NoChain},
      check_if_running : CheckJobRunning,
      multiple_jobs : {FALSE} ]

InitRerun == InitWith({<<>>}, {<<>>}, RerunConfigs)

\* execute has ended and is called again on the same instance: the fields of
\* the operator stay as the ended run left them (__init__ does not run
\* again), what is observed of a run starts afresh
ReExecute ==
    /\ pc \in {"returned", "raised"}
    /\ kill_pc # "cancel"
    /\ n_runs < MaxRuns
    /\ pc' = "idle"
    /\ result' = NoResult
    /\ raised' = None
    /\ is_running' = FALSE
    /\ n_queries' = 0
    /\ n_running' = 0
    /\ n_launch' = 0
    /\ launch_variables' = <<>>
    /\ n_lines' = 0
    /\ n_auth' = 0
    /\ persisted' = {}
    /\ n_wait' = 0
    /\ kill_pc' = "idle"
    /\ cancels' = {}
    /\ recorded' = {}
    /\ n_writes' = 0
    /\ last_recorded' = None
    /\ UNCHANGED <<fieldVars, dataflow_config, artifact, beam_hook,
                   dataflow_hook, dataflow_job_id, frameVars, auth_held,
                   tmpVars>>

NextRerun == Next \/ ReExecute

SpecRerun == InitRerun /\ [][NextRerun]_vars

(***************************************************************************)
(* Specification: one execute whose thread is not stopped on its way from   *)
(* "if not is_running" to the launcher: the launch, once it is the next      *)
(* statement, is made in the end.  on_kill may run at any moment; it does    *)
(* not stop execute.                                                        *)
(***************************************************************************)
SpecProgress == InitRerun /\ [][Next]_vars /\ WF_vars(JavaLaunch)

(***************************************************************************)
(* Properties.                                                              *)
(***************************************************************************)
\* the target is the managed remote runner
ManagedRemote == IsDataflowRunner(runner)

\* execute has passed the check for a running job
PastDupCheck == pc \notin {"idle", "resolve", "tmpdir", "dupcheck"}

\* C1: every key of the operator's pipeline_options is among the variables
\* the launcher receives, with the value pipeline_options gives it, under its
\* snake-case key for the Python and the Go operator
C1_UserOptionsReachLauncher ==
    n_launch > 0 =>
        \A i \in 1..Len(pipeline_options) :
            LET key == IF kind \in {"Python", "Go"}
                       THEN convert_camel_to_snake(pipeline_options[i].k)
                       ELSE pipeline_options[i].k
            IN  /\ Has(launch_variables, key)
                /\ Get(launch_variables, key) = pipeline_options[i].v

\* C2: with a runner other than DataflowRunner no execute and no on_kill
\* calls is_job_dataflow_running, wait_for_done or cancel_job
C2_LocalMakesNoRemoteCall ==
    ~ManagedRemote => n_queries = 0 /\ n_wait = 0 /\ cancels = {}

\* C2 witness: on a local runner execute has returned and on_kill has run
C2_Witness ==
    ~ManagedRemote /\ pc = "returned" /\ kill_pc = "returned" /\ n_launch = 1

\* C3: the Java operator on Dataflow with check_if_running = IgnoreJob never
\* asks whether the job is running and goes on to the launch
C3_IgnoreJobNeverQueries ==
    (kind = "Java" /\ ManagedRemote
        /\ dataflow_config.check_if_running = "IgnoreJob") =>
        /\ n_queries = 0
        /\ pc = "decide" => ~is_running
        /\ pc \notin {"idle", "resolve", "dupcheck", "decide"} => n_launch = 1
        /\ raised # "RemoteQueryFailure"

\* C3 witness: the launch is under way with IgnoreJob
C3_Witness ==
    /\ kind = "Java" /\ ManagedRemote
    /\ dataflow_config.check_if_running = "IgnoreJob"
    /\ pc = "launching" /\ n_launch = 1

\* C4: the Java operator on Dataflow with FinishIfRunning asks once; when the
\* answer is "running", execute launches nothing, waits for nothing, raises
\* nothing and returns no job id
C4_FinishIfRunningSkips ==
    (kind = "Java" /\ ManagedRemote
        /\ dataflow_config.check_if_running = "FinishIfRunning") =>
        /\ n_queries <= 1
        /\ PastDupCheck => n_queries = 1
        /\ n_running > 0 =>
              /\ n_launch = 0 /\ n_wait = 0 /\ raised = None
              /\ pc \in {"while", "returned"}
              /\ pc = "returned" => (result.t = "dict" /\ result.id = None)

\* C4 witness: the job was running and execute has returned
C4_Witness ==
    /\ kind = "Java" /\ ManagedRemote
    /\ dataflow_config.check_if_running = "FinishIfRunning"
    /\ n_running = 1 /\ pc = "returned"

\* C5: the Java operator on Dataflow with WaitForRun launches only after an
\* answer "not running": after k answers "running" and one "not running"
\* there have been k + 1 questions, no further one, and the launch follows
C5_WaitForRunPollsUntilFree ==
    (kind = "Java" /\ ManagedRemote
        /\ dataflow_config.check_if_running = "WaitForRun") =>
        /\ (PastDupCheck /\ raised # "RemoteQueryFailure") =>
              n_queries = n_running + (IF is_running THEN 0 ELSE 1)
        /\ n_launch > 0 => (~is_running /\ n_queries = n_running + 1)
        /\ pc = "returned" => n_launch = 1
        /\ n_launch <= 1

\* C5 witness: one answer "running", then "not running", then the launch
C5_Witness ==
    /\ kind = "Java" /\ ManagedRemote
    /\ dataflow_config.check_if_running = "WaitForRun"
    /\ n_running = 1 /\ n_queries = 2 /\ pc = "launching"

\* C6: an on_kill that finds no job id recorded calls nothing and returns
C6_OnKillWithoutJobIdIsNoOp ==
    [][(dataflow_job_id = None /\ kill_pc \in {"idle", "returned"}) =>
          (kill_pc' \in {"idle", "returned"} /\ cancels' = cancels)]_vars

\* C6 witness: on_kill has returned during a Dataflow launch that has not
\* shown a job id
C6_Witness ==
    /\ kill_pc = "returned" /\ dataflow_hook /\ pc = "launching"
    /\ dataflow_job_id = None /\ cancels = {}

\* C7: on_kill never ends with an exception
C7_OnKillSwallowsErrors == kill_pc # "raised"

\* C8: once a job id is recorded an on_kill calls cancel_job, with the job id
\* recorded last and the project id of dataflow_config; cancel_job never gets
\* None or an id that was not recorded
C8_OnKillCancelsRecordedJob ==
    [][/\ (dataflow_job_id # None /\ kill_pc \in {"idle", "returned"}
              /\ kill_pc' # kill_pc) => kill_pc' = "cancel"
       /\ (kill_pc = "cancel" /\ kill_pc' # "cancel") =>
              cancels' = cancels \cup
                  {[job_id |-> last_recorded,
                    project_id |-> dataflow_config.project_id]}
       /\ \A c \in cancels' :
              /\ c.job_id \in recorded' /\ c.job_id # None
              /\ c.project_id # Absent
              /\ c.project_id = dataflow_config'.project_id]_vars

\* C8 witness: cancel_job was called while the launch is under way
C8_Witness == cancels # {} /\ pc = "launching" /\ kill_pc = "returned"

\* C9: self.dataflow_job_id is assigned at most once in an execute, and
\* holds nothing but an id the line processor gave to the callback
C9_JobIdWrittenAtMostOnce ==
    /\ n_writes <= 1
    /\ dataflow_job_id # None => dataflow_job_id \in recorded

\* C10: on Dataflow execute returns the job id recorded during its launch
\* (None when there was none), on another runner it returns nothing
C10_ReturnValue ==
    pc = "returned" =>
        IF ManagedRemote
        THEN result.t = "dict" /\ result.id = last_recorded
        ELSE result.t = "none"

\* C10 witness: execute returned a job id its launch had shown
C10_Witness == pc = "returned" /\ result.t = "dict" /\ result.id \in JobIds

\* C11: when execute has returned or raised, the file downloaded for a gs://
\* artifact is deleted, and so is the temporary directory of the Go operator
C11_TemporaryArtifactDeleted ==
    pc \in {"returned", "raised"} => ~tmp_file /\ ~tmp_dir

\* C11 witness: an execute that downloaded its artifact into an ExitStack file
\* and launched has ended by a failing wait_for_done
C11_Witness ==
    /\ kind # "Go"
    /\ artifact = "tmp"
    /\ raised = "WaitFailure"
    /\ n_launch = 1

\* C12: provide_authorized_gcloud() is held exactly while a launcher runs on
\* Dataflow: not during the queries, the persist or wait_for_done, and it is
\* entered once per remote launch and never on the local path or on a skip
C12_AuthorizationOnlyDuringLaunch ==
    /\ auth_held <=> (pc = "launching" /\ ManagedRemote)
    /\ n_auth = IF ManagedRemote THEN n_launch ELSE 0
    /\ auth_held => n_wait = 0 /\ persisted = {}

\* C12 witness: a remote launcher raised and the authorization is released
C12_Witness ==
    /\ ManagedRemote
    /\ raised = "LaunchFailure"
    /\ n_auth = 1
    /\ ~auth_held

\* C13: wait_for_done is called only after a remote launch with a location
\* configured; without a location execute returns the job id and has not
\* waited
C13_WaitOnlyWithLocation ==
    /\ n_wait > 0 =>
          /\ Truthy(dataflow_config.location)
          /\ ManagedRemote
          /\ n_launch = 1
    /\ ( /\ ManagedRemote
         /\ n_launch = 1
         /\ ~Truthy(dataflow_config.location)
         /\ pc = "returned" ) =>
          /\ n_wait = 0
          /\ result = ReturnedDict(dataflow_job_id)

\* C13 witness: a remote launch without a location returned its job id
C13_Witness ==
    /\ ManagedRemote
    /\ ~Truthy(dataflow_config.location)
    /\ n_launch = 1
    /\ pc = "returned"
    /\ result.id \in JobIds
    /\ n_wait = 0

\* C14: on Dataflow with policy FinishIfRunning or WaitForRun, every launch
\* of the Python, the Java and the Go operator comes after a query of
\* is_job_dataflow_running whose last answer was "not running"
C14_DuplicateCheckBeforeLaunch ==
    ( /\ ManagedRemote
      /\ n_launch > 0
      /\ dataflow_config.check_if_running \in {"FinishIfRunning", "WaitForRun"} )
    => n_queries > 0 /\ ~is_running

\* C15: a failure of the query, of the launch or of wait_for_done is raised
\* by execute: no value is returned, no later step has run and the launcher
\* was not called a second time
C15_FatalErrorsAbort ==
    /\ raised # None <=> pc = "raised"
    /\ raised # None => result = NoResult
    /\ raised = "RemoteQueryFailure" =>
          n_launch = 0 /\ n_wait = 0 /\ persisted = {}
    /\ raised = "LaunchFailure" =>
          n_launch = 1 /\ n_wait = 0 /\ persisted = {}
    /\ raised = "WaitFailure" => n_launch = 1 /\ n_wait = 1
    /\ n_launch <= 1

\* C15 witness: the second query of a WaitForRun loop failed
C15_Witness ==
    /\ raised = "RemoteQueryFailure"
    /\ n_running = 1
    /\ n_queries = 2

\* C16: while start_go_pipeline runs on a go_file downloaded from gs://, the
\* downloaded file and its temporary directory exist
C16_GoSourcePresentDuringLaunch ==
    (kind = "Go" /\ artifact = "tmp" /\ pc = "launching") =>
        tmp_file /\ tmp_dir

\* the labels mapping that wins the merge of the options: the operator's own
\* when pipeline_options has one, else the one of the defaults
GivenLabels ==
    IF Has(pipeline_options, K_labels) THEN Get(pipeline_options, K_labels).m
    ELSE IF Has(default_pipeline_options, K_labels)
    THEN Get(default_pipeline_options, K_labels).m
    ELSE <<>>

\* C17: on Dataflow the labels the launcher receives contain airflow-version
\* with the version label and every entry of the labels mapping the options
\* were given
C17_VersionLabelMerged ==
    (ManagedRemote /\ n_launch > 0) =>
        /\ Has(launch_variables, K_labels)
        /\ LET labels == Get(launch_variables, K_labels).m
           IN  /\ Has(labels, "airflow-version")
               /\ Get(labels, "airflow-version") = VersionLabel
               /\ \A i \in 1..Len(GivenLabels) :
                     /\ Has(labels, GivenLabels[i].k)
                     /\ GivenLabels[i].k # "airflow-version" =>
                           Get(labels, GivenLabels[i].k) = GivenLabels[i].v

\* the places of the merged options whose key has the snake-case form key
SnakePlaces(key) ==
    {j \in 1..Len(merged_options) :
        convert_camel_to_snake(merged_options[j].k) = key}

\* the greatest member of a non-empty set of places
Latest(S) == CHOOSE j \in S : \A k \in S : k <= j

\* C18: the Python and the Go launcher receive, under each snake-case key,
\* the value of the last merged key with that snake-case form, and every
\* merged key is represented; the Java launcher receives the merged keys as
\* they are, with their values (jobName aside, which it sets on Dataflow)
C18_SnakeCaseKeepsLaterValue ==
    n_launch > 0 =>
        IF kind \in {"Python", "Go"}
        THEN /\ \A i \in 1..Len(launch_variables) :
                  /\ SnakePlaces(launch_variables[i].k) # {}
                  /\ launch_variables[i].v =
                        merged_options[Latest(SnakePlaces(launch_variables[i].k))].v
                  /\ \A j \in 1..Len(launch_variables) :
                        launch_variables[j].k = launch_variables[i].k => j = i
             /\ \A j \in 1..Len(merged_options) :
                  Has(launch_variables,
                      convert_camel_to_snake(merged_options[j].k))
        ELSE /\ \A j \in 1..Len(merged_options) :
                  /\ Has(launch_variables, merged_options[j].k)
                  /\ (merged_options[j].k # K_jobName \/ ~ManagedRemote) =>
                        Get(launch_variables, merged_options[j].k)
                            = merged_options[j].v
             /\ \A i \in 1..Len(launch_variables) :
                  \/ Has(merged_options, launch_variables[i].k)
                  \/ ManagedRemote /\ launch_variables[i].k = K_jobName

\* C18 witness: the Python or Go launcher got temp_location from merged
\* options where tempLocation comes after temp_location with another value
C18_Witness ==
    /\ kind \in {"Python", "Go"}
    /\ n_launch > 0
    /\ Has(merged_options, K_tempLocation)
    /\ Has(merged_options, K_temp_location)
    /\ Latest(SnakePlaces(K_temp_location)) # 
         (CHOOSE j \in 1..Len(merged_options) :
              merged_options[j].k = K_temp_location)
    /\ Get(merged_options, K_tempLocation) # Get(merged_options, K_temp_location)
    /\ Get(launch_variables, K_temp_location) = Get(merged_options, K_tempLocation)

\* C19: on Dataflow, once the launch has succeeded and execute is at
\* wait_for_done or has returned, DataflowJobLink.persist was given the job
\* id, for the Python, the Java and the Go operator
C19_JobIdPersistedBeforeWait ==
    (ManagedRemote /\ n_launch = 1 /\ pc \in {"waiting", "returned"}) =>
        persisted = {dataflow_job_id}

\* C20: in a second execute on the same instance the job id is None until
\* the launch output of that run shows one: a run that returns without one
\* returns None and an on_kill of that time cancels nothing
C20_JobIdStartsNull ==
    (n_runs >= 2 /\ last_recorded = None) =>
        /\ dataflow_job_id = None
        /\ (pc = "returned" /\ result.t = "dict") => result.id = None
        /\ cancels = {}

\* C21: no step of execute or on_kill changes the operator's
\* default_pipeline_options or pipeline_options, nested labels included
C21_ExecuteKeepsCallerOptions ==
    [][ /\ default_pipeline_options' = default_pipeline_options
        /\ pipeline_options' = pipeline_options ]_vars

\* C21 witness: an execute on Dataflow wrote the version label into the
\* labels it gave the launcher, and the labels of the defaults lack it
C21_Witness ==
    /\ ManagedRemote
    /\ pc = "returned"
    /\ n_launch = 1
    /\ ~Has(pipeline_options, K_labels)
    /\ Has(default_pipeline_options, K_labels)
    /\ Has(Get(launch_variables, K_labels).m, "airflow-version")
    /\ Has(Get(launch_variables, K_labels).m, "team")
    /\ ~Has(Get(default_pipeline_options, K_labels).m, "airflow-version")

\* every query of this execute of the Java operator under WaitForRun has
\* answered "running"
OnlyRunningAnswers ==
    /\ kind = "Java"
    /\ dataflow_config.check_if_running = "WaitForRun"
    /\ n_queries > 0
    /\ n_running = n_queries

\* the last query under WaitForRun answered "not running"
AnsweredNotRunning ==
    /\ dataflow_config.check_if_running = "WaitForRun"
    /\ pc = "while"
    /\ ~is_running

\* C22: under WaitForRun, while every query has answered "running" execute
\* is still in the loop and has not launched, returned or raised; once a
\* query answers "not running" the launcher is called in the end
C22_WaitForRunHasNoTimeout ==
    /\ [](OnlyRunningAnswers =>
            /\ pc = "while"
            /\ is_running
            /\ n_launch = 0
            /\ result = NoResult
            /\ raised = None)
    /\ (AnsweredNotRunning ~> n_launch = 1)

\* C22 witness: the launcher runs after as many "running" answers as the
\* environment gives, followed by a "not running" answer
C22_Witness ==
    /\ dataflow_config.check_if_running = "WaitForRun"
    /\ n_running = MaxPolls
    /\ n_queries = MaxPolls + 1
    /\ pc = "launching"

\* convert_camel_to_snake("impersonateServiceAccount")
SnakeImpersonationKey == convert_camel_to_snake(K_impersonateServiceAccount)

\* the key under which the launcher of this operator gets the option
ImpersonationKey ==
    IF FormatPipelineOptions THEN SnakeImpersonationKey
    ELSE K_impersonateServiceAccount

\* the text a configured chain of at most two accounts stands for
ChainText(c) ==
    IF c.t = "str" THEN c.s
    ELSE IF Len(c.l) = 1 THEN c.l[1]
    ELSE c.l[1] \o <<",">> \o c.l[2]

\* C23: the launcher gets impersonateServiceAccount exactly on Dataflow, from
\* the Python or the Java operator, with a non-empty impersonation chain;
\* its value is the chain, a list joined by commas
C23_ImpersonationInjected ==
    n_launch > 0 =>
        /\ Has(launch_variables, ImpersonationKey) <=>
              /\ ManagedRemote
              /\ kind \in {"Python", "Java"}
              /\ ChainTruthy(dataflow_config.impersonation_chain)
        /\ Has(launch_variables, ImpersonationKey) =>
              Get(launch_variables, ImpersonationKey)
                  = Str(ChainText(dataflow_config.impersonation_chain))

\* C23 witness: the Java launcher got a chain of two accounts joined by a
\* comma
C23_Witness ==
    /\ kind = "Java"
    /\ n_launch = 1
    /\ dataflow_config.impersonation_chain.t = "list"
    /\ Has(launch_variables, K_impersonateServiceAccount)
    /\ Get(launch_variables, K_impersonateServiceAccount).s
         = <<"first@project", ",", "second@project">>

\* C24: in one execute the launcher is called at most once and
\* wait_for_done at most once; is_job_dataflow_running is not asked once the
\* launcher was called; wait_for_done is called only from the point where
\* the remote launcher of this execute has returned without failure
C24_LaunchOnceInOrder ==
    /\ [](/\ n_launch <= 1
          /\ n_wait <= 1
          /\ n_wait = 1 =>
                /\ n_launch = 1
                /\ ManagedRemote
                /\ pc \in {"waiting", "returned", "raised"}
                /\ raised # "LaunchFailure")
    /\ [][n_launch >= 1 => n_queries' = n_queries]_vars
    /\ [][n_wait' # n_wait => pc = "launched" /\ n_launch = 1]_vars

\* C24 witness: an execute asked twice, launched once, waited once and
\* returned
C24_Witness ==
    /\ n_queries = 2
    /\ n_running = 1
    /\ n_launch = 1
    /\ n_wait = 1
    /\ pc = "returned"

====
